---- MODULE Spec2Model ----
(***************************************************************************)
(* The multi-gameweek transfer planner of client/src/pages/SquadBuilder.js *)
(* as a state machine: the React state of the SquadBuilder component and   *)
(* one action per event handler.  Prices and banks are integer tenths of a *)
(* million.  A player object is identified by its id; the fields the       *)
(* planner copies around (squad_position, is_starter, is_captain,          *)
(* is_vice_captain) are kept per squad entry, the immutable catalog fields *)
(* (position, price) are functions of the id.                              *)
(***************************************************************************)
EXTENDS Integers, Sequences, FiniteSets, TLC

(* ------------------------------ bounds -------------------------------- *)
\* ids of the timeline are 1..LastGw (the real timeline has 38 gameweeks)
LastGw == 4
\* the gameweek flagged is_next by the timeline source
AnchorGw == 2
\* number of user events (clicks, the Load button included) explored after
\* construction
MaxOps == 7
\* number of team loads started
MaxLoads == 2

(* --------------------------- external data ---------------------------- *)
\* getGameweeks(): the ordered gameweek list (ids only; deadlines are not read
\* by the planner)
FetchedGameweeks == [i \in 1..LastGw |-> i]

\* the keys gameweekData can hold: the ids of the timeline and null (0), the
\* key an entry gets when it is written while the id in use is still null
GwKeys == 0..LastGw

\* getPlayers(): the player catalog.  1..15 are the imported squad, 16 and 18
\* are further midfielders, 17 a further defender and 19 a further goalkeeper.
CatalogIds == 1..19

PlayerPosition(id) ==
    CASE id \in {1, 12, 19} -> "GKP"
      [] id \in {2, 3, 4, 13, 14, 17} -> "DEF"
      [] id \in {5, 6, 7, 8, 9, 16, 18} -> "MID"
      [] OTHER -> "FWD"

\* price in tenths of a million
PlayerPrice(id) ==
    CASE id = 5 -> 80
      [] id = 6 -> 65
      [] id = 16 -> 95
      [] id \in {1, 12, 19} -> 45
      [] OTHER -> 50

\* player.get("team"): the club of a catalog player.  The fifteen imported
\* players come three from each of the clubs 1..5; 16 plays for club 1 and the
\* other spare players for club 6.
PlayerTeam(id) ==
    IF id <= 15 THEN ((id - 1) \div 3) + 1
    ELSE IF id = 16 THEN 1
    ELSE 6

\* getUserSquad(): UserTeamService.getUserSquad puts squad_position, is_captain,
\* is_vice_captain and is_starter = (position <= 11) on every pick.
\* The import is a 3-5-2 with player 5 captain and player 10 vice-captain.
ImportSquad ==
    [i \in 1..15 |->
        [id |-> i, squad_position |-> i, is_starter |-> (i <= 11),
         is_captain |-> (i = 5), is_vice_captain |-> (i = 10)]]

\* free_transfers is availableTransfers: 2 for a manager who made no transfer
\* in the last gameweek, 1 otherwise.  The imported manager has 2.
ImportTeam ==
    [squad |-> ImportSquad, bank |-> 20, free_transfers |-> 2, fpl_id |-> 1]

\* the team ids the explored user types
FplIds == {1, 2}

\* getUserSquad(fplId): the second team holds the same fifteen with another
\* bank and one free transfer
UserTeam(fplId) ==
    IF fplId = 1 THEN ImportTeam
    ELSE [ImportTeam EXCEPT !.bank = 25, !.free_transfers = 1, !.fpl_id = fplId]

NoTeam == [squad |-> <<>>, bank |-> 0, free_transfers |-> 0, fpl_id |-> 0]

\* the players the explored user opens the modal on and presses its Transfer,
\* Substitute and captain buttons for, and the players handlePlayerClick is
\* called with
TransferOutIds == {1, 5, 6, 16}
SubstituteIds == {1, 2, 5}
SwapIds == {5, 12, 15}
CaptainIds == {6, 15}
ModalIds == TransferOutIds \cup SubstituteIds \cup CaptainIds

(* ------------------------------ values -------------------------------- *)
\* null for a player-valued state (selectedOut, selectedForSwap, modalPlayer)
NoPlayer ==
    [id |-> 0, squad_position |-> 0, is_starter |-> FALSE,
     is_captain |-> FALSE, is_vice_captain |-> FALSE]

\* null for swapError; a message names the players it mentions by id
NoSwapError == [msg |-> "", benchPlayer |-> 0, starter |-> 0]

\* the value of a field an entry has no key for (JS undefined), and the number
\* arithmetic on it yields; neither is a value the program assigns
Undefined == -1000
NaN == -1001

\* a key with no value in gameweekData: every field reads undefined
NoEntry ==
    [present |-> FALSE, squad |-> <<>>, transfers |-> <<>>, bank |-> Undefined,
     freeTransfers |-> Undefined]

VALID_FORMATIONS ==
    { <<3, 4, 3>>, <<3, 5, 2>>, <<4, 4, 2>>, <<4, 3, 3>>, <<4, 5, 1>>,
      <<5, 3, 2>>, <<5, 4, 1>>, <<5, 2, 3>> }

VARIABLES
    gameweeks,          \* useState([]): the timeline
    currentGameweekId,  \* useState(null), 0 = null
    initialGameweekId,  \* useState(null), 0 = null
    gameweekData,       \* useState({}): gwId -> entry
    teamData,           \* useState(null): the imported team, NoTeam = null
    allPlayers,         \* useState([]): ids of the catalog
    selectedOut,        \* useState(null): snapshot of a squad entry
    selectedForSwap,    \* useState(null): snapshot of a squad entry
    modalPlayer,        \* useState(null): the squad entry the modal is open on
    swapError,          \* useState(null): NoSwapError = null
    error,              \* useState(null): "" = null
    loading,            \* useState(false)
    gwFetch,            \* the mount effect's getGameweeks(): pending/done/failed
    pendingLoads,       \* handleLoadTeam calls suspended at their await, each
                        \* with the initialGameweekId its closure captured
    loads,              \* team loads started so far
    requestedId,        \* the team id of the load requested last, 0 = none yet
    savedPlan,          \* useState(null): the remembered saved plan, NoPlan = null
    pendingSaves,       \* savePlan calls suspended at their insert, each with
                        \* the planData it built
    ops,                \* user events so far
    lastOp              \* the handler that ran last and what it did

vars ==
    << gameweeks, currentGameweekId, initialGameweekId, gameweekData, teamData,
       allPlayers, selectedOut, selectedForSwap, swapError, error, loading,
       gwFetch, pendingLoads, loads, requestedId, savedPlan, pendingSaves,
       modalPlayer, ops, lastOp >>

\* lastOp: the handler, the gameweek viewed when it ran, its argument, its outcome
Op(name, gw, arg, res) == [name |-> name, gw |-> gw, arg |-> arg, res |-> res]

(* ------------------------- derived render state ----------------------- *)
\* const currentSquad = gameweekData[currentGameweekId]?.squad || []
CurrentEntry ==
    IF currentGameweekId \in DOMAIN gameweekData
    THEN gameweekData[currentGameweekId] ELSE NoEntry

currentSquad == CurrentEntry.squad

\* const transfers = gameweekData[currentGameweekId]?.transfers || []
transfers == CurrentEntry.transfers

SquadIds(squad) == { squad[i].id : i \in 1..Len(squad) }

(* ------------------------- timeline navigation ------------------------ *)
\* gameweeks.findIndex(gw => gw.id === currentId), 1-based; 0 is JS's -1
findIndex(currentId) ==
    IF \E i \in 1..Len(gameweeks) : gameweeks[i] = currentId
    THEN CHOOSE i \in 1..Len(gameweeks) :
            /\ gameweeks[i] = currentId
            /\ \A j \in 1..(i - 1) : gameweeks[j] # currentId
    ELSE 0

\* a successor that wraps around to the first gameweek of the timeline
getNextGameweekIdWrapping(currentId) ==
    LET idx == findIndex(currentId) IN
    IF idx # 0 THEN gameweeks[(idx % Len(gameweeks)) + 1] ELSE 0

\* null is 0
getNextGameweekId(currentId) ==
    LET idx == findIndex(currentId) IN
    IF idx # 0 /\ idx < Len(gameweeks) THEN gameweeks[idx + 1] ELSE 0

getPrevGameweekId(currentId) ==
    LET idx == findIndex(currentId) IN
    IF idx > 1 THEN gameweeks[idx - 1] ELSE 0

(* --------------------------- transfer helpers ------------------------- *)
\* { ...playerIn, squad_position: .., is_starter: .. } for a catalog player:
\* the catalog object carries no is_captain / is_vice_captain
Incoming(inId, squad_position, is_starter) ==
    [id |-> inId, squad_position |-> squad_position, is_starter |-> is_starter,
     is_captain |-> FALSE, is_vice_captain |-> FALSE]

\* one pass of the forEach body: newSquad.map(p => p.id === t.out.id ? ... : p)
ApplyOneTransfer(squad, t) ==
    [i \in 1..Len(squad) |->
        IF squad[i].id = t.out.id
        THEN Incoming(t.in, squad[i].squad_position, squad[i].is_starter)
        ELSE squad[i]]

RECURSIVE applyTransfersToSquad(_, _)
applyTransfersToSquad(baseSquad, transfersList) ==
    IF transfersList = <<>> THEN baseSquad
    ELSE applyTransfersToSquad(ApplyOneTransfer(baseSquad, Head(transfersList)),
                               Tail(transfersList))

\* bank += x on a number, on undefined and on NaN
PlusEquals(bank, x) == IF bank \in {Undefined, NaN} THEN NaN ELSE bank + x

RECURSIVE BankFold(_, _)
BankFold(bank, transfersList) ==
    IF transfersList = <<>> THEN bank
    ELSE BankFold(PlusEquals(bank, PlayerPrice(Head(transfersList).out.id)
                                   - PlayerPrice(Head(transfersList).in)),
                  Tail(transfersList))

calculateBankAfterTransfers(gwState) == BankFold(gwState.bank, gwState.transfers)

(* ---------------------------- plan propagator ------------------------- *)
\* { ...prev[gwId], ...newState }
Merge(old, new) ==
    [f \in DOMAIN old |-> IF f \in DOMAIN new THEN new[f] ELSE old[f]]

\* a propagation that stops after the gameweek next to the edited one
PropagateOnce(runningState, currentGw) ==
    LET nextGw == getNextGameweekId(currentGw) IN
    IF nextGw # 0 /\ runningState[nextGw].present
    THEN [runningState EXCEPT ![nextGw].squad =
            applyTransfersToSquad(runningState[currentGw].squad,
                                  runningState[currentGw].transfers)]
    ELSE runningState

\* a propagation that re-bases a later gameweek by dropping its transfers
RECURSIVE PropagateClearingTransfers(_, _)
PropagateClearingTransfers(runningState, currentGw) ==
    LET nextGw == getNextGameweekId(currentGw) IN
    IF nextGw # 0 /\ runningState[nextGw].present
    THEN PropagateClearingTransfers(
            [runningState EXCEPT
                ![nextGw].squad =
                    applyTransfersToSquad(runningState[currentGw].squad,
                                          runningState[currentGw].transfers),
                ![nextGw].transfers = <<>>],
            nextGw)
    ELSE runningState

\* a loop that walks on over gameweeks that have no entry, to the end of the
\* timeline
RECURSIVE PropagateLoopPastGaps(_, _, _)
PropagateLoopPastGaps(runningState, currentGw, visited) ==
    LET nextGw == getNextGameweekId(currentGw) IN
    IF nextGw # 0
    THEN PropagateLoopPastGaps(
            [runningState EXCEPT ![nextGw].squad =
                applyTransfersToSquad(runningState[currentGw].squad,
                                      runningState[currentGw].transfers)],
            nextGw, Append(visited, nextGw))
    ELSE [runningState |-> runningState, visited |-> visited]

\* the while loop of updateGameweekState: while (nextGw && runningState[nextGw]).
\* visited lists the gameweeks its body has run for, in the order of the runs
RECURSIVE PropagateLoop(_, _, _)
PropagateLoop(runningState, currentGw, visited) ==
    LET nextGw == getNextGameweekId(currentGw) IN
    IF nextGw # 0 /\ runningState[nextGw].present
    THEN PropagateLoop(
            [runningState EXCEPT ![nextGw].squad =
                applyTransfersToSquad(runningState[currentGw].squad,
                                      runningState[currentGw].transfers)],
            nextGw, Append(visited, nextGw))
    ELSE [runningState |-> runningState, visited |-> visited]

\* the plan the loop of updateGameweekState leaves in runningState
Propagate(runningState, currentGw) ==
    PropagateLoop(runningState, currentGw, << >>).runningState

\* the value setGameweekData's updater returns
updateGameweekState(gwId, newState) ==
    LET updated == [gameweekData EXCEPT
                       ![gwId] = Merge(Merge(gameweekData[gwId], newState),
                                       [present |-> TRUE])]
    IN Propagate(updated, gwId)

\* const freeTransfers = teamData?.free_transfers || 0
freeTransfers == teamData.free_transfers

\* const transfersMade = transfers.length
transfersMade == Len(transfers)

\* const extraTransfers = Math.max(0, transfersMade - freeTransfers)
extraTransfers ==
    IF transfersMade - freeTransfers > 0 THEN transfersMade - freeTransfers ELSE 0

\* const transferCost = extraTransfers * 4
transferCost == extraTransfers * 4

\* allPlayers.filter(p => !currentSquadIds.has(p.id))
\*           .filter(p => !(selectedOut && p.position !== selectedOut.position))
\* with currentSquadIds = new Set(currentSquad.map(p => p.id))
availablePlayers ==
    LET currentSquadIds == SquadIds(currentSquad)
    IN  { p \in allPlayers :
            /\ p \notin currentSquadIds
            /\ (selectedOut # NoPlayer
                  => PlayerPosition(p) = PlayerPosition(selectedOut.id)) }

(* ------------------------------ formation ----------------------------- *)
CountStarters(squad, position) ==
    Cardinality({ i \in 1..Len(squad) :
                    /\ squad[i].squad_position <= 11
                    /\ PlayerPosition(squad[i].id) = position })

getFormation(squad) ==
    << CountStarters(squad, "DEF"), CountStarters(squad, "MID"),
       CountStarters(squad, "FWD") >>

isValidFormation(formation) == formation \in VALID_FORMATIONS

\* currentSquad.map(p => p.id === player1.id ? {...p, squad_position: pos2}
\*                     : p.id === player2.id ? {...p, squad_position: pos1} : p)
SwapPositions(squad, player1, player2) ==
    [i \in 1..Len(squad) |->
        IF squad[i].id = player1.id
        THEN [squad[i] EXCEPT !.squad_position = player2.squad_position]
        ELSE IF squad[i].id = player2.id
        THEN [squad[i] EXCEPT !.squad_position = player1.squad_position]
        ELSE squad[i]]

\* a formation test that lets every swap pass
wouldBeValidSwapAlways(player1, player2) == TRUE

wouldBeValidSwap(player1, player2) ==
    IF (player1.squad_position <= 11) = (player2.squad_position <= 11)
    THEN TRUE
    ELSE isValidFormation(getFormation(SwapPositions(currentSquad, player1, player2)))


(* --------------------------- session start ---------------------------- *)
\* the mount effect: getGameweeks() resolved; nextGw = gws.find(is_next) || gws[0]
FetchGameweeksOk ==
    /\ gwFetch = "pending"
    /\ gwFetch' = "done"
    /\ gameweeks' = FetchedGameweeks
    /\ initialGameweekId' = AnchorGw
    /\ currentGameweekId' = AnchorGw
    /\ lastOp' = Op("fetchGameweeks", 0, AnchorGw, "ok")
    /\ UNCHANGED << gameweekData, teamData, allPlayers, selectedOut,
                    selectedForSwap, swapError, error, loading, pendingLoads,
                    loads, ops, savedPlan, pendingSaves, requestedId,
                    modalPlayer >>

\* the mount effect: getGameweeks() rejected; only logged
FetchGameweeksFail ==
    /\ gwFetch = "pending"
    /\ gwFetch' = "failed"
    /\ lastOp' = Op("fetchGameweeks", 0, 0, "failed")
    /\ UNCHANGED << gameweeks, currentGameweekId, initialGameweekId,
                    gameweekData, teamData, allPlayers, selectedOut,
                    selectedForSwap, swapError, error, loading, pendingLoads,
                    loads, ops, savedPlan, pendingSaves, requestedId,
                    modalPlayer >>

\* handleLoadTeam with an empty team id
HandleLoadTeamNoId ==
    /\ ops < MaxOps
    /\ loads < MaxLoads
    /\ ops' = ops + 1
    /\ loads' = loads + 1
    /\ error' = "Please enter a valid FPL Team ID"
    /\ lastOp' = Op("loadTeam", currentGameweekId, 0, "no_id")
    /\ UNCHANGED << gameweeks, currentGameweekId, initialGameweekId,
                    gameweekData, teamData, allPlayers, selectedOut,
                    selectedForSwap, swapError, loading, gwFetch,
                    pendingLoads, savedPlan, pendingSaves, requestedId,
                    modalPlayer >>

\* handleLoadTeam up to its await, fplId typed in the input.  The request it
\* issues records the fplId and the initialGameweekId of the render that
\* issued it, the closure the code after the await runs in
HandleLoadTeamStart(fplId) ==
    /\ ops < MaxOps
    /\ loads < MaxLoads
    /\ ops' = ops + 1
    /\ loads' = loads + 1
    /\ loading' = TRUE
    /\ error' = ""
    /\ gameweekData' = [g \in GwKeys |-> NoEntry]
    /\ selectedOut' = NoPlayer
    /\ pendingLoads' =
          Append(pendingLoads, [initial |-> initialGameweekId, fplId |-> fplId])
    /\ requestedId' = fplId
    /\ lastOp' = Op("loadTeam", currentGameweekId, 0, "started")
    /\ UNCHANGED << gameweeks, currentGameweekId, initialGameweekId, teamData,
                    allPlayers, selectedForSwap, swapError, gwFetch,
                    savedPlan, pendingSaves, modalPlayer >>

RemoveAt(seq, i) == SubSeq(seq, 1, i - 1) \o SubSeq(seq, i + 1, Len(seq))

\* the entry handleLoadTeam and resetAllTransfers seed the anchor with
SeedEntry(team) ==
    [present |-> TRUE, squad |-> team.squad, transfers |-> <<>>,
     bank |-> team.bank, freeTransfers |-> 1]

\* handleLoadTeam after its await, both fetches resolved with status success
HandleLoadTeamOk(i) ==
    /\ i \in 1..Len(pendingLoads)
    /\ pendingLoads' = RemoveAt(pendingLoads, i)
    /\ teamData' = UserTeam(pendingLoads[i].fplId)
    /\ allPlayers' = CatalogIds
    /\ IF pendingLoads[i].initial # 0
       THEN /\ gameweekData' =
                 [g \in GwKeys |->
                     IF g = pendingLoads[i].initial
                     THEN SeedEntry(UserTeam(pendingLoads[i].fplId)) ELSE NoEntry]
            /\ currentGameweekId' = pendingLoads[i].initial
       ELSE UNCHANGED << gameweekData, currentGameweekId >>
    /\ loading' = FALSE
    /\ lastOp' = Op("loadTeam", currentGameweekId, pendingLoads[i].initial, "ok")
    /\ UNCHANGED << gameweeks, initialGameweekId, selectedOut,
                    selectedForSwap, swapError, error, gwFetch, loads, ops,
                    savedPlan, pendingSaves, requestedId, modalPlayer >>

\* handleLoadTeam after its await, a fetch rejected or status === 'error'
HandleLoadTeamFail(i) ==
    /\ i \in 1..Len(pendingLoads)
    /\ pendingLoads' = RemoveAt(pendingLoads, i)
    /\ error' = "Failed to load team"
    /\ loading' = FALSE
    /\ lastOp' = Op("loadTeam", currentGameweekId, 0, "failed")
    /\ UNCHANGED << gameweeks, currentGameweekId, initialGameweekId,
                    gameweekData, teamData, allPlayers, selectedOut,
                    selectedForSwap, swapError, gwFetch, loads, ops,
                    savedPlan, pendingSaves, requestedId, modalPlayer >>

(* ----------------------------- persistence ---------------------------- *)
\* savedPlan === null
NoPlan == [present |-> FALSE]

\* the planData savePlan builds.  Of its fields only full_plan is kept:
\* squad_data and transfers_data are read by loadSavedPlan for a row without
\* full_plan alone, and full_plan is always an object here
PlanData == [present |-> TRUE, full_plan |-> gameweekData]

\* savePlan with an empty team id: returns at once
SavePlanNoId ==
    /\ teamData # NoTeam
    /\ ops < MaxOps
    /\ ops' = ops + 1
    /\ lastOp' = Op("savePlan", currentGameweekId, 0, "no_id")
    /\ UNCHANGED << gameweeks, currentGameweekId, initialGameweekId,
                    gameweekData, teamData, allPlayers, selectedOut,
                    selectedForSwap, swapError, error, loading, gwFetch,
                    pendingLoads, loads, savedPlan, pendingSaves, requestedId,
                    modalPlayer >>

\* savePlan up to its await: planData is built from this render's state and
\* one insert is issued
SavePlanStart ==
    /\ teamData # NoTeam
    /\ ops < MaxOps
    /\ ops' = ops + 1
    /\ pendingSaves' = Append(pendingSaves, PlanData)
    /\ lastOp' = Op("savePlan", currentGameweekId, 0, "started")
    /\ UNCHANGED << gameweeks, currentGameweekId, initialGameweekId,
                    gameweekData, teamData, allPlayers, selectedOut,
                    selectedForSwap, swapError, error, loading, gwFetch,
                    pendingLoads, loads, savedPlan, requestedId, modalPlayer
                    >>

\* savePlan after its await, the insert returned no error:
\* alert('Plan saved successfully!'); setSavedPlan(planData)
SavePlanOk(i) ==
    /\ i \in 1..Len(pendingSaves)
    /\ pendingSaves' = RemoveAt(pendingSaves, i)
    /\ savedPlan' = pendingSaves[i]
    /\ lastOp' = Op("savePlan", currentGameweekId, 0, "ok")
    /\ UNCHANGED << gameweeks, currentGameweekId, initialGameweekId,
                    gameweekData, teamData, allPlayers, selectedOut,
                    selectedForSwap, swapError, error, loading, gwFetch,
                    pendingLoads, loads, ops, requestedId, modalPlayer >>

\* a failed insert that is remembered all the same
SavePlanFailRemembering(i) ==
    /\ i \in 1..Len(pendingSaves)
    /\ pendingSaves' = RemoveAt(pendingSaves, i)
    /\ savedPlan' = pendingSaves[i]
    /\ lastOp' = Op("savePlan", currentGameweekId, 0, "failed")
    /\ UNCHANGED << gameweeks, currentGameweekId, initialGameweekId,
                    gameweekData, teamData, allPlayers, selectedOut,
                    selectedForSwap, swapError, error, loading, gwFetch,
                    pendingLoads, loads, ops, requestedId, modalPlayer >>

\* savePlan after its await, the insert returned an error or threw:
\* console.error; alert('Failed to save plan')
SavePlanFail(i) ==
    /\ i \in 1..Len(pendingSaves)
    /\ pendingSaves' = RemoveAt(pendingSaves, i)
    /\ lastOp' = Op("savePlan", currentGameweekId, 0, "failed")
    /\ UNCHANGED << gameweeks, currentGameweekId, initialGameweekId,
                    gameweekData, teamData, allPlayers, selectedOut,
                    selectedForSwap, swapError, error, loading, gwFetch,
                    pendingLoads, loads, savedPlan, ops, requestedId,
                    modalPlayer >>

\* the rows of the squads table the query of fetchSavedPlan can return: one
\* written by an earlier session with its full_plan, and one of the time
\* before full_plan was stored (squad_data and transfers_data only)
StoredRows ==
    { [present |-> TRUE,
       full_plan |-> [g \in GwKeys |->
                        IF g = AnchorGw THEN SeedEntry(ImportTeam) ELSE NoEntry]],
      [present |-> TRUE, squad_data |-> ImportSquad, transfers_data |-> <<>>] }

\* the effect on [fplId]: an id is typed and the query it starts resolves,
\* with the latest row, or with no row or an error (row = NoPlan):
\* setSavedPlan(data[0]); setShowSavedPlan(true), or setSavedPlan(null)
FetchSavedPlan(row) ==
    /\ row \in StoredRows \cup {NoPlan}
    /\ ops < MaxOps
    /\ ops' = ops + 1
    /\ savedPlan' = row
    /\ lastOp' = Op("fetchSavedPlan", currentGameweekId, 0,
                    IF row.present THEN "row" ELSE "none")
    /\ UNCHANGED << gameweeks, currentGameweekId, initialGameweekId,
                    gameweekData, teamData, allPlayers, selectedOut,
                    selectedForSwap, swapError, error, loading, gwFetch,
                    pendingLoads, loads, pendingSaves, requestedId,
                    modalPlayer >>

\* the plan loadSavedPlan sets: savedPlan.full_plan, or for a row without
\* one the anchor entry rebuilt from squad_data and transfers_data
LoadedPlan ==
    IF "full_plan" \in DOMAIN savedPlan
    THEN savedPlan.full_plan
    ELSE [g \in GwKeys |->
            IF g = initialGameweekId
            THEN [present |-> TRUE, squad |-> savedPlan.squad_data,
                  transfers |-> savedPlan.transfers_data,
                  bank |-> teamData.bank, freeTransfers |-> 1]
            ELSE NoEntry]

\* loadSavedPlan, its button rendered while showSavedPlan:
\* setGameweekData(...); alert('Plan loaded!')
LoadSavedPlan ==
    /\ teamData # NoTeam
    /\ savedPlan.present
    /\ ops < MaxOps
    /\ ops' = ops + 1
    /\ gameweekData' = LoadedPlan
    /\ lastOp' = Op("loadSavedPlan", currentGameweekId, 0, "ok")
    /\ UNCHANGED << gameweeks, currentGameweekId, initialGameweekId, teamData,
                    allPlayers, selectedOut, selectedForSwap, swapError,
                    error, loading, gwFetch, pendingLoads, loads, savedPlan,
                    pendingSaves, requestedId, modalPlayer >>

(* ------------------------------ navigation ---------------------------- *)
\* a new entry that copies the stored bank instead of deriving it
NewGameweekEntryStoredBank(currentGwState) ==
    [present |-> TRUE,
     squad |-> applyTransfersToSquad(currentGwState.squad, currentGwState.transfers),
     transfers |-> <<>>,
     bank |-> currentGwState.bank,
     freeTransfers |-> 1]

\* the entry handleGameweekChange('next') creates for a gameweek not yet in state
NewGameweekEntry(currentGwState) ==
    [present |-> TRUE,
     squad |-> applyTransfersToSquad(currentGwState.squad, currentGwState.transfers),
     transfers |-> <<>>,
     bank |-> calculateBankAfterTransfers(currentGwState),
     freeTransfers |-> 1]

\* handleGameweekChange('next'); the buttons are rendered once teamData is set
HandleGameweekChangeNext ==
    /\ ops < MaxOps
    /\ teamData # NoTeam
    /\ ops' = ops + 1
    /\ LET newId == getNextGameweekId(currentGameweekId) IN
       IF currentGameweekId = 0
       THEN /\ lastOp' = Op("next", 0, 0, "none")
            /\ UNCHANGED << gameweekData, currentGameweekId, selectedOut,
                            selectedForSwap >>
       ELSE IF newId # 0 /\ ~gameweekData[newId].present
                         /\ ~gameweekData[currentGameweekId].present
       THEN \* currentGwState is undefined: reading .squad throws
            /\ lastOp' = Op("next", currentGameweekId, newId, "threw")
            /\ UNCHANGED << gameweekData, currentGameweekId, selectedOut,
                            selectedForSwap >>
       ELSE /\ gameweekData' =
                 IF newId # 0 /\ ~gameweekData[newId].present
                 THEN [gameweekData EXCEPT
                          ![newId] = NewGameweekEntry(gameweekData[currentGameweekId])]
                 ELSE gameweekData
            /\ IF newId # 0
               THEN /\ currentGameweekId' = newId
                    /\ selectedOut' = NoPlayer
                    /\ selectedForSwap' = NoPlayer
                    /\ lastOp' = Op("next", currentGameweekId, newId,
                                    IF gameweekData[newId].present
                                    THEN "existing" ELSE "new")
               ELSE /\ lastOp' = Op("next", currentGameweekId, 0, "none")
                    /\ UNCHANGED << currentGameweekId, selectedOut,
                                    selectedForSwap >>
    /\ UNCHANGED << gameweeks, initialGameweekId, teamData, allPlayers,
                    swapError, error, loading, gwFetch, pendingLoads, loads,
                    savedPlan, pendingSaves, requestedId, modalPlayer >>

\* handleGameweekChange('prev'); null < initialGameweekId is true in JS
HandleGameweekChangePrev ==
    /\ ops < MaxOps
    /\ teamData # NoTeam
    /\ ops' = ops + 1
    /\ LET newId == getPrevGameweekId(currentGameweekId) IN
       IF currentGameweekId = 0 \/ newId < initialGameweekId \/ newId = 0
       THEN /\ lastOp' = Op("prev", currentGameweekId, newId, "refused")
            /\ UNCHANGED << currentGameweekId, selectedOut, selectedForSwap >>
       ELSE /\ currentGameweekId' = newId
            /\ selectedOut' = NoPlayer
            /\ selectedForSwap' = NoPlayer
            /\ lastOp' = Op("prev", currentGameweekId, newId, "ok")
    /\ UNCHANGED << gameweeks, initialGameweekId, gameweekData, teamData,
                    allPlayers, swapError, error, loading, gwFetch,
                    pendingLoads, loads, savedPlan, pendingSaves, requestedId,
                    modalPlayer >>


(* ------------------------------ transfers ----------------------------- *)
\* the squad entries of the viewed gameweek the user can click on
Rendered(ids) ==
    { currentSquad[i] : i \in { j \in 1..Len(currentSquad) : currentSquad[j].id \in ids } }

\* the entry openPlayerModal puts in the modal for a clicked pitch element:
\* currentSquad.find(p => p.id === player.id) || player
FindInSquad(player) ==
    IF \E i \in 1..Len(currentSquad) : currentSquad[i].id = player.id
    THEN currentSquad[CHOOSE i \in 1..Len(currentSquad) :
                         /\ currentSquad[i].id = player.id
                         /\ \A j \in 1..(i - 1) : currentSquad[j].id # player.id]
    ELSE player

\* openPlayerModal(player), a click on a player of the pitch
OpenPlayerModal(player) ==
    /\ ops < MaxOps
    /\ teamData # NoTeam
    /\ modalPlayer' = FindInSquad(player)
    /\ lastOp' = Op("openModal", currentGameweekId, player.id, "ok")
    /\ UNCHANGED << gameweeks, currentGameweekId, initialGameweekId,
                    gameweekData, teamData, allPlayers, selectedOut,
                    selectedForSwap, swapError, error, loading, gwFetch,
                    pendingLoads, loads, savedPlan, pendingSaves,
                    requestedId, ops >>

\* closeModal, the modal's close button or a click on its overlay
CloseModal ==
    /\ modalPlayer # NoPlayer
    /\ modalPlayer' = NoPlayer
    /\ lastOp' = Op("closeModal", currentGameweekId, 0, "ok")
    /\ UNCHANGED << gameweeks, currentGameweekId, initialGameweekId,
                    gameweekData, teamData, allPlayers, selectedOut,
                    selectedForSwap, swapError, error, loading, gwFetch,
                    pendingLoads, loads, savedPlan, pendingSaves,
                    requestedId, ops >>

\* handleTransferClick(player)
HandleTransferClick(player) ==
    /\ ops < MaxOps
    /\ ops' = ops + 1
    /\ swapError' = NoSwapError
    /\ selectedForSwap' = NoPlayer
    /\ selectedOut' = IF selectedOut.id = player.id THEN NoPlayer ELSE player
    /\ lastOp' = Op("transferClick", currentGameweekId, player.id, "ok")
    /\ UNCHANGED << gameweeks, currentGameweekId, initialGameweekId,
                    gameweekData, teamData, allPlayers, error, loading,
                    gwFetch, pendingLoads, loads, savedPlan, pendingSaves,
                    requestedId >>

\* handleTransferFromModal, the modal's Transfer button:
\* if (modalPlayer) { handleTransferClick(modalPlayer); closeModal() }
HandleTransferFromModal(ids) ==
    /\ modalPlayer # NoPlayer
    /\ modalPlayer.id \in ids
    /\ HandleTransferClick(modalPlayer)
    /\ modalPlayer' = NoPlayer

\* the cancel button of the replacement panel, rendered while selectedOut is
\* set: onClick={() => setSelectedOut(null)}
CancelTransfer ==
    /\ ops < MaxOps
    /\ teamData # NoTeam
    /\ selectedOut # NoPlayer
    /\ ops' = ops + 1
    /\ selectedOut' = NoPlayer
    /\ lastOp' = Op("cancelTransfer", currentGameweekId, selectedOut.id, "ok")
    /\ UNCHANGED << gameweeks, currentGameweekId, initialGameweekId,
                    gameweekData, teamData, allPlayers, selectedForSwap,
                    swapError, error, loading, gwFetch, pendingLoads, loads,
                    savedPlan, pendingSaves, requestedId, modalPlayer >>

\* currentSquad.map(p => p.id === selectedOut.id
\*   ? { ...playerIn, squad_position: selectedOut.squad_position,
\*       is_starter: selectedOut.is_starter } : p)
TransferInSquad(squad, out, playerIn) ==
    [i \in 1..Len(squad) |->
        IF squad[i].id = out.id
        THEN Incoming(playerIn, out.squad_position, out.is_starter)
        ELSE squad[i]]

\* the state handleTransferIn passes to updateGameweekState
TransferInState(playerIn) ==
    [squad |-> TransferInSquad(currentSquad, selectedOut, playerIn),
     transfers |-> Append(transfers, [out |-> selectedOut, in |-> playerIn])]

\* handleTransferIn(playerIn), a click in the replacement list, which is
\* rendered while selectedOut is set and lists availablePlayers
HandleTransferIn(playerIn) ==
    /\ ops < MaxOps
    /\ teamData # NoTeam
    /\ selectedOut # NoPlayer
    /\ playerIn \in availablePlayers
    /\ ops' = ops + 1
    /\ gameweekData' = updateGameweekState(currentGameweekId, TransferInState(playerIn))
    /\ selectedOut' = NoPlayer
    /\ lastOp' = Op("transferIn", currentGameweekId, playerIn, "ok")
    /\ UNCHANGED << gameweeks, currentGameweekId, initialGameweekId, teamData,
                    allPlayers, selectedForSwap, swapError, error, loading,
                    gwFetch, pendingLoads, loads, savedPlan, pendingSaves,
                    requestedId, modalPlayer >>

\* currentSquad.map(p => p.id === transfer.in.id
\*   ? { ...transfer.out, squad_position: p.squad_position,
\*       is_starter: p.is_starter } : p)
UndoSquad(squad, transfer) ==
    [i \in 1..Len(squad) |->
        IF squad[i].id = transfer.in
        THEN [transfer.out EXCEPT !.squad_position = squad[i].squad_position,
                                  !.is_starter = squad[i].is_starter]
        ELSE squad[i]]

\* the state undoTransfer passes to updateGameweekState, from the viewed
\* gameweek's squad and transfer list
UndoState(squad, transfersList, index) ==
    [squad |-> UndoSquad(squad, transfersList[index]),
     transfers |-> RemoveAt(transfersList, index)]

\* undoTransfer(index), the Undo button of transfer row index (1-based here)
UndoTransfer(index) ==
    /\ ops < MaxOps
    /\ teamData # NoTeam
    /\ index \in 1..Len(transfers)
    /\ ops' = ops + 1
    /\ gameweekData' =
          updateGameweekState(currentGameweekId,
                              UndoState(currentSquad, transfers, index))
    /\ lastOp' = Op("undoTransfer", currentGameweekId, index, "ok")
    /\ UNCHANGED << gameweeks, currentGameweekId, initialGameweekId, teamData,
                    allPlayers, selectedOut, selectedForSwap, swapError,
                    error, loading, gwFetch, pendingLoads, loads, savedPlan,
                    pendingSaves, requestedId, modalPlayer >>

\* resetAllTransfers, the Reset All button
ResetAllTransfers ==
    /\ ops < MaxOps
    /\ teamData # NoTeam
    /\ ops' = ops + 1
    /\ IF initialGameweekId # 0
       THEN /\ gameweekData' =
                 [g \in GwKeys |->
                     IF g = initialGameweekId THEN SeedEntry(teamData) ELSE NoEntry]
            /\ currentGameweekId' = initialGameweekId
            /\ selectedOut' = NoPlayer
            /\ selectedForSwap' = NoPlayer
            /\ swapError' = NoSwapError
            /\ lastOp' = Op("resetAll", currentGameweekId, 0, "ok")
       ELSE /\ lastOp' = Op("resetAll", currentGameweekId, 0, "none")
            /\ UNCHANGED << gameweekData, currentGameweekId, selectedOut,
                            selectedForSwap, swapError >>
    /\ UNCHANGED << gameweeks, initialGameweekId, teamData, allPlayers, error,
                    loading, gwFetch, pendingLoads, loads, savedPlan,
                    pendingSaves, requestedId, modalPlayer >>

\* the state resetCurrentGameweek passes to updateGameweekState
ResetState(prevGwState) ==
    [squad |-> applyTransfersToSquad(prevGwState.squad, prevGwState.transfers),
     transfers |-> <<>>,
     bank |-> calculateBankAfterTransfers(prevGwState)]

\* resetCurrentGameweek, the Reset GW button, rendered while transfers.length > 0
ResetCurrentGameweek ==
    /\ ops < MaxOps
    /\ teamData # NoTeam
    /\ Len(transfers) > 0
    /\ ops' = ops + 1
    /\ LET prevId == getPrevGameweekId(currentGameweekId) IN
       IF currentGameweekId = 0 \/ currentGameweekId = initialGameweekId
       THEN /\ lastOp' = Op("resetGw", currentGameweekId, 0, "none")
            /\ UNCHANGED gameweekData
       ELSE IF prevId = 0 \/ ~gameweekData[prevId].present
       THEN \* prevGwState is undefined: reading .squad throws
            /\ lastOp' = Op("resetGw", currentGameweekId, prevId, "threw")
            /\ UNCHANGED gameweekData
       ELSE /\ gameweekData' =
                 updateGameweekState(currentGameweekId,
                                     ResetState(gameweekData[prevId]))
            /\ lastOp' = Op("resetGw", currentGameweekId, prevId, "ok")
    /\ UNCHANGED << gameweeks, currentGameweekId, initialGameweekId, teamData,
                    allPlayers, selectedOut, selectedForSwap, swapError,
                    error, loading, gwFetch, pendingLoads, loads, savedPlan,
                    pendingSaves, requestedId, modalPlayer >>

(* -------------------------------- lineup ------------------------------ *)
\* handleSubstituteFromModal, the modal's Substitute button:
\* if (modalPlayer) { setSelectedForSwap(modalPlayer); closeModal() }
HandleSubstituteFromModal ==
    /\ ops < MaxOps
    /\ modalPlayer # NoPlayer
    /\ modalPlayer.id \in SubstituteIds
    /\ ops' = ops + 1
    /\ selectedForSwap' = modalPlayer
    /\ modalPlayer' = NoPlayer
    /\ lastOp' = Op("substitute", currentGameweekId, modalPlayer.id, "ok")
    /\ UNCHANGED << gameweeks, currentGameweekId, initialGameweekId,
                    gameweekData, teamData, allPlayers, selectedOut,
                    swapError, error, loading, gwFetch, pendingLoads, loads,
                    savedPlan, pendingSaves, requestedId >>

\* a verdict without the goalkeeper check of a starter/bench swap
SwapVerdictNoGoalkeeperCheck(first, player) ==
    LET isSwapStarterToBench ==
            \/ (first.squad_position <= 11 /\ player.squad_position > 11)
            \/ (first.squad_position > 11 /\ player.squad_position <= 11)
        isBothBench == first.squad_position > 11 /\ player.squad_position > 11
        isEitherGK == PlayerPosition(first.id) = "GKP" \/ PlayerPosition(player.id) = "GKP"
    IN  IF isBothBench
        THEN IF isEitherGK THEN "Goalkeeper bench position is fixed" ELSE "swap"
        ELSE IF isSwapStarterToBench
        THEN IF wouldBeValidSwap(first, player) THEN "swap"
             ELSE "invalid formation"
        ELSE "select"

\* a verdict that rejects every starter/bench swap with a goalkeeper in it
SwapVerdictGoalkeeperFixed(first, player) ==
    LET isSwapStarterToBench ==
            \/ (first.squad_position <= 11 /\ player.squad_position > 11)
            \/ (first.squad_position > 11 /\ player.squad_position <= 11)
        isBothBench == first.squad_position > 11 /\ player.squad_position > 11
        isEitherGK == PlayerPosition(first.id) = "GKP" \/ PlayerPosition(player.id) = "GKP"
    IN  IF isBothBench
        THEN IF isEitherGK THEN "Goalkeeper bench position is fixed" ELSE "swap"
        ELSE IF isSwapStarterToBench
        THEN IF isEitherGK
             THEN "Goalkeeper bench position is fixed"
             ELSE IF wouldBeValidSwap(first, player) THEN "swap"
             ELSE "invalid formation"
        ELSE "select"

\* what handlePlayerClick decides for a second click on another player:
\* "swap", "select", or the error it reports
SwapVerdict(first, player) ==
    LET isSwapStarterToBench ==
            \/ (first.squad_position <= 11 /\ player.squad_position > 11)
            \/ (first.squad_position > 11 /\ player.squad_position <= 11)
        isBothBench == first.squad_position > 11 /\ player.squad_position > 11
        isEitherGK == PlayerPosition(first.id) = "GKP" \/ PlayerPosition(player.id) = "GKP"
        areBothGK == PlayerPosition(first.id) = "GKP" /\ PlayerPosition(player.id) = "GKP"
    IN  IF isBothBench
        THEN IF isEitherGK THEN "Goalkeeper bench position is fixed" ELSE "swap"
        ELSE IF isSwapStarterToBench
        THEN IF isEitherGK /\ ~areBothGK
             THEN "Goalkeepers can only swap with other goalkeepers"
             ELSE IF wouldBeValidSwap(first, player) THEN "swap"
             ELSE "invalid formation"
        ELSE "select"

\* the message handlePlayerClick sets for a verdict.  For an invalid formation:
\*   starter     = selectedForSwap.squad_position <= 11 ? player : selectedForSwap
\*   benchPlayer = selectedForSwap.squad_position > 11 ? player : selectedForSwap
\*   `Cannot sub ${benchPlayer.web_name} for ${starter.web_name} - invalid formation`
SwapErrorOf(verdict, first, player) ==
    IF verdict \in {"swap", "select"} THEN NoSwapError
    ELSE IF verdict = "invalid formation"
    THEN [msg |-> verdict,
          benchPlayer |-> IF first.squad_position > 11 THEN player.id ELSE first.id,
          starter |-> IF first.squad_position <= 11 THEN player.id ELSE first.id]
    ELSE [msg |-> verdict, benchPlayer |-> 0, starter |-> 0]

\* handleSwap(player1, player2): the plan after the swap is committed
handleSwap(player1, player2) ==
    updateGameweekState(currentGameweekId,
                        [squad |-> SwapPositions(currentSquad, player1, player2)])

\* a click that is never taken for a click on the selected player
ClickedSelectedNever(first, player) == FALSE

\* if (selectedForSwap.id === player.id): the click is on the selected player
ClickedSelected(first, player) == first.id = player.id

\* handlePlayerClick(player) called with a rendered player.  No element of the
\* page is wired to it: the action is part of NextLineup only
HandlePlayerClick(player) ==
    /\ ops < MaxOps
    /\ teamData # NoTeam
    /\ player \in Rendered(SwapIds)
    /\ ops' = ops + 1
    /\ IF selectedForSwap # NoPlayer
       THEN IF ClickedSelected(selectedForSwap, player)
            THEN /\ selectedForSwap' = NoPlayer
                 /\ swapError' = NoSwapError
                 /\ lastOp' = Op("playerClick", currentGameweekId, player.id, "cancel")
                 /\ UNCHANGED << gameweekData, selectedOut >>
            ELSE LET verdict == SwapVerdict(selectedForSwap, player) IN
                 /\ gameweekData' = IF verdict = "swap"
                                    THEN handleSwap(selectedForSwap, player)
                                    ELSE gameweekData
                 /\ selectedForSwap' = IF verdict = "select" THEN player ELSE NoPlayer
                 /\ swapError' = SwapErrorOf(verdict, selectedForSwap, player)
                 /\ lastOp' = Op("playerClick", currentGameweekId, player.id,
                                 IF verdict \in {"swap", "select"}
                                 THEN verdict ELSE "rejected")
                 /\ UNCHANGED selectedOut
       ELSE /\ swapError' = NoSwapError
            /\ IF selectedOut.id = player.id
               THEN /\ selectedOut' = NoPlayer
                    /\ UNCHANGED selectedForSwap
               ELSE /\ selectedForSwap' = player
                    /\ UNCHANGED selectedOut
            /\ lastOp' = Op("playerClick", currentGameweekId, player.id, "first")
            /\ UNCHANGED gameweekData
    /\ UNCHANGED << gameweeks, currentGameweekId, initialGameweekId, teamData,
                    allPlayers, error, loading, gwFetch, pendingLoads, loads,
                    savedPlan, pendingSaves, requestedId, modalPlayer >>

(* ------------------------------ captaincy ----------------------------- *)
\* a modal that shows the captain buttons for every player
CaptainActionsAlways(player) == TRUE

\* {modalPlayer.squad_position <= 11 && (<div className="captain-actions">...)}:
\* the modal opened on a player shows the captain buttons for a starter only
CaptainActionsOffered(player) == player.squad_position <= 11

\* what a click on a captain button does.  makeCaptain and makeViceCaptain
\* call setCurrentSquad, which the component never declares: evaluating the
\* callee throws a ReferenceError before any state setter runs.
CaptainClick(player, disabled) ==
    IF ~CaptainActionsOffered(player) THEN "not_offered"
    ELSE IF disabled THEN "disabled"
    ELSE "threw"

\* the modal's Make Captain button -> makeCaptain(modalPlayer); the throw
\* comes before setModalPlayer, the modal stays as it is
MakeCaptain ==
    /\ ops < MaxOps
    /\ modalPlayer # NoPlayer
    /\ modalPlayer.id \in CaptainIds
    /\ ops' = ops + 1
    /\ lastOp' = Op("makeCaptain", currentGameweekId, modalPlayer.id,
                    CaptainClick(modalPlayer, modalPlayer.is_captain))
    /\ UNCHANGED << gameweeks, currentGameweekId, initialGameweekId,
                    gameweekData, teamData, allPlayers, selectedOut,
                    selectedForSwap, swapError, error, loading, gwFetch,
                    pendingLoads, loads, savedPlan, pendingSaves, requestedId,
                    modalPlayer >>

\* the modal's Make Vice Captain button -> makeViceCaptain(modalPlayer)
MakeViceCaptain ==
    /\ ops < MaxOps
    /\ modalPlayer # NoPlayer
    /\ modalPlayer.id \in CaptainIds
    /\ ops' = ops + 1
    /\ lastOp' = Op("makeViceCaptain", currentGameweekId, modalPlayer.id,
                    CaptainClick(modalPlayer, modalPlayer.is_vice_captain))
    /\ UNCHANGED << gameweeks, currentGameweekId, initialGameweekId,
                    gameweekData, teamData, allPlayers, selectedOut,
                    selectedForSwap, swapError, error, loading, gwFetch,
                    pendingLoads, loads, savedPlan, pendingSaves, requestedId,
                    modalPlayer >>

Init ==
    /\ gameweeks = <<>>
    /\ currentGameweekId = 0
    /\ initialGameweekId = 0
    /\ gameweekData = [g \in GwKeys |-> NoEntry]
    /\ teamData = NoTeam
    /\ allPlayers = {}
    /\ selectedOut = NoPlayer
    /\ selectedForSwap = NoPlayer
    /\ modalPlayer = NoPlayer
    /\ swapError = NoSwapError
    /\ error = ""
    /\ loading = FALSE
    /\ gwFetch = "pending"
    /\ pendingLoads = <<>>
    /\ loads = 0
    /\ requestedId = 0
    /\ savedPlan = NoPlan
    /\ pendingSaves = <<>>
    /\ ops = 0
    /\ lastOp = Op("init", 0, 0, "ok")

Next ==
    \/ FetchGameweeksOk
    \/ FetchGameweeksFail
    \/ HandleLoadTeamNoId
    \/ HandleLoadTeamStart(ImportTeam.fpl_id)
    \/ \E i \in 1..Len(pendingLoads) : HandleLoadTeamOk(i)
    \/ \E i \in 1..Len(pendingLoads) : HandleLoadTeamFail(i)
    \/ HandleGameweekChangeNext
    \/ HandleGameweekChangePrev
    \/ \E player \in Rendered(ModalIds) : OpenPlayerModal(player)
    \/ CloseModal
    \/ HandleTransferFromModal(TransferOutIds)
    \/ CancelTransfer
    \/ \E playerIn \in availablePlayers : HandleTransferIn(playerIn)
    \/ \E index \in 1..Len(transfers) : UndoTransfer(index)
    \/ ResetAllTransfers
    \/ ResetCurrentGameweek
    \/ HandleSubstituteFromModal
    \/ MakeCaptain
    \/ MakeViceCaptain

\* a planning session for one team in which the plan is never saved: every
\* event the rendered page offers
Spec == Init /\ [][Next]_vars

\* a session on the lineup: loading, navigating, transferring, undoing,
\* re-deriving a gameweek, substituting from the modal, and the lineup handler
\* handlePlayerClick called on a rendered player.  The page wires no element
\* to handlePlayerClick (a click on the pitch opens the modal), so these
\* behaviours are those of the handler called directly.  Failed fetches, the
\* cancel and close buttons, Reset All and the captain buttons are left to
\* Spec
\* the players whose modal is opened in this session, and those of them the
\* Transfer button is pressed for
LineupOutIds == {1, 5}
LineupModalIds == LineupOutIds \cup SubstituteIds

NextLineup ==
    \/ FetchGameweeksOk
    \/ HandleLoadTeamStart(ImportTeam.fpl_id)
    \/ \E i \in 1..Len(pendingLoads) : HandleLoadTeamOk(i)
    \/ HandleGameweekChangeNext
    \/ HandleGameweekChangePrev
    \/ \E player \in Rendered(LineupModalIds) : OpenPlayerModal(player)
    \/ HandleTransferFromModal(LineupOutIds)
    \/ \E playerIn \in availablePlayers : HandleTransferIn(playerIn)
    \/ \E index \in 1..Len(transfers) : UndoTransfer(index)
    \/ ResetCurrentGameweek
    \/ HandleSubstituteFromModal
    \/ \E player \in Rendered(SwapIds) : HandlePlayerClick(player)

SpecLineup == Init /\ [][NextLineup]_vars


\* a session with persistence: loading, navigating, transferring, re-deriving
\* a gameweek, saving the plan, fetching the stored row and loading the saved
\* plan back.  The fetches of the timeline and of the team succeed (their
\* failures are explored in Spec and SpecLoads); the lineup handlers
\* (substitution, swap, captaincy) neither read nor write savedPlan and are
\* left to Spec, as are a load with an empty id, the cancel, close, undo and
\* Reset All buttons.  One squad entry is clicked for transfer
PersistOutIds == {5}

NextPersist ==
    \/ FetchGameweeksOk
    \/ HandleLoadTeamStart(ImportTeam.fpl_id)
    \/ \E i \in 1..Len(pendingLoads) : HandleLoadTeamOk(i)
    \/ SavePlanNoId
    \/ SavePlanStart
    \/ \E i \in 1..Len(pendingSaves) : SavePlanOk(i)
    \/ \E i \in 1..Len(pendingSaves) : SavePlanFail(i)
    \/ \E row \in StoredRows \cup {NoPlan} : FetchSavedPlan(row)
    \/ LoadSavedPlan
    \/ HandleGameweekChangeNext
    \/ HandleGameweekChangePrev
    \/ \E player \in Rendered(PersistOutIds) : OpenPlayerModal(player)
    \/ HandleTransferFromModal(PersistOutIds)
    \/ \E playerIn \in availablePlayers : HandleTransferIn(playerIn)
    \/ ResetCurrentGameweek

SpecPersist == Init /\ [][NextPersist]_vars

\* a session in which the user loads one team after another, navigates and
\* resets the plan: the loads ask for either team id and their responses
\* arrive in any order.  No transfer is made, so the Reset GW button is never
\* rendered
NextLoads ==
    \/ FetchGameweeksOk
    \/ FetchGameweeksFail
    \/ HandleLoadTeamNoId
    \/ \E fplId \in FplIds : HandleLoadTeamStart(fplId)
    \/ \E i \in 1..Len(pendingLoads) : HandleLoadTeamOk(i)
    \/ \E i \in 1..Len(pendingLoads) : HandleLoadTeamFail(i)
    \/ HandleGameweekChangeNext
    \/ HandleGameweekChangePrev
    \/ ResetAllTransfers

SpecLoads == Init /\ [][NextLoads]_vars

(* ------------------------------ properties ---------------------------- *)
Materialized(g) == g \in 1..LastGw /\ gameweekData[g].present

\* plan[g].squad == applyTransfers(plan[previous(g)].squad, plan[previous(g)].transfers)
PrefixConsistentAt(g) ==
    LET p == getPrevGameweekId(g) IN
    (p # 0 /\ gameweekData[p].present)
        => gameweekData[g].squad =
              applyTransfersToSquad(gameweekData[p].squad, gameweekData[p].transfers)

\* the handlers that commit an edit through updateGameweekState
Committed(names) ==
    /\ lastOp.name \in names
    /\ lastOp.res \in {"ok", "swap"}
    /\ (lastOp.name = "playerClick" => lastOp.res = "swap")

\* C1 as stated: prefix-consistency.  Every materialized gameweek after the
\* anchor has the squad derived from its predecessor's squad and transfers.
C1_PrefixConsistency ==
    \A g \in 1..LastGw :
        (Materialized(g) /\ g > initialGameweekId) => PrefixConsistentAt(g)

\* C1 amended: right after an edit is committed to gameweek e (transfer in,
\* undo, swap, reset), every materialized gameweek after e has the squad derived
\* from its predecessor, and so has a gameweek that forward navigation has just
\* materialized.
C1_PrefixConsistencyDownstream ==
    /\ Committed({"transferIn", "undoTransfer", "resetGw", "playerClick"})
          => \A g \in 1..LastGw :
                (Materialized(g) /\ g > lastOp.gw) => PrefixConsistentAt(g)
    /\ (lastOp.name = "next" /\ lastOp.res = "new") => PrefixConsistentAt(lastOp.arg)

\* a transfer committed at the anchor while two later gameweeks are
\* materialized, whose squads were re-based
C1_Witness ==
    /\ lastOp.name = "transferIn"
    /\ lastOp.gw = initialGameweekId
    /\ \E g \in 1..LastGw :
          /\ Materialized(g)
          /\ g > getNextGameweekId(initialGameweekId)
          /\ lastOp.arg \in SquadIds(gameweekData[g].squad)

\* C2: after a transfer, undo or reset is committed to gameweek g, every
\* materialized later gameweek's bank is the derived bank of its predecessor.
C2_BankRebased ==
    Committed({"transferIn", "undoTransfer", "resetGw"})
        => \A n \in 1..LastGw :
              (/\ Materialized(n)
               /\ n > lastOp.gw
               /\ getPrevGameweekId(n) # 0
               /\ gameweekData[getPrevGameweekId(n)].present)
                  => gameweekData[n].bank =
                        calculateBankAfterTransfers(gameweekData[getPrevGameweekId(n)])

\* C3: budget conservation.  An accepted transfer leaves the gameweek's stored
\* bank at the bank before plus out.price minus in.price.
C3_BudgetConservation ==
    [][ (lastOp'.name = "transferIn")
          => gameweekData'[currentGameweekId].bank =
                gameweekData[currentGameweekId].bank
                  + PlayerPrice(selectedOut.id) - PlayerPrice(lastOp'.arg) ]_vars

\* C4: a gameweek materialized by forward navigation from g starts with the
\* squad g shows after its transfers and with g's bank after its transfers.
C4_NextInheritsPostTransferState ==
    (lastOp.name = "next" /\ lastOp.res = "new")
        => /\ gameweekData[lastOp.arg].squad = gameweekData[lastOp.gw].squad
           /\ gameweekData[lastOp.arg].bank =
                 calculateBankAfterTransfers(gameweekData[lastOp.gw])

\* C5: lazy materialization.  'next' from a gameweek g with an entry to a
\* gameweek without one creates exactly that entry, with no transfers, one free
\* transfer and g's derived squad and bank; 'next' to a gameweek that has an
\* entry changes no entry.
C5_LazyMaterialization ==
    [][ (lastOp'.name = "next")
          => LET g == currentGameweekId
                 n == getNextGameweekId(currentGameweekId)
             IN  /\ (n # 0 /\ ~gameweekData[n].present /\ gameweekData[g].present)
                      => /\ gameweekData'[n].present
                         /\ gameweekData'[n].transfers = <<>>
                         /\ gameweekData'[n].freeTransfers = 1
                         /\ gameweekData'[n].squad =
                               applyTransfersToSquad(gameweekData[g].squad,
                                                     gameweekData[g].transfers)
                         /\ gameweekData'[n].bank =
                               BankFold(gameweekData[g].bank, gameweekData[g].transfers)
                         /\ \A h \in 1..LastGw :
                               h # n => gameweekData'[h] = gameweekData[h]
                         /\ currentGameweekId' = n
                 /\ (n # 0 /\ gameweekData[n].present)
                      => /\ gameweekData' = gameweekData
                         /\ currentGameweekId' = n ]_vars

\* a gameweek materialized from one that holds a transfer with a price difference
C5_Witness ==
    /\ lastOp.name = "next"
    /\ lastOp.res = "new"
    /\ Len(gameweekData[lastOp.gw].transfers) > 0
    /\ gameweekData[lastOp.arg].bank # gameweekData[lastOp.gw].bank

CountPosition(squad, position) ==
    Cardinality({ i \in 1..Len(squad) : PlayerPosition(squad[i].id) = position })

C7_DistinctPlayers ==
    \A g \in 1..LastGw :
        Materialized(g)
            => /\ Len(gameweekData[g].squad) = 15
               /\ Cardinality(SquadIds(gameweekData[g].squad)) = 15

\* C8: a transfer is recorded only when the outgoing player is held in the
\* viewed gameweek's squad, the incoming player is not, and their positions agree.
C8_TransferPreconditions ==
    [][ (lastOp'.name = "transferIn" /\ gameweekData' # gameweekData)
          => /\ selectedOut.id \in SquadIds(currentSquad)
             /\ lastOp'.arg \notin SquadIds(currentSquad)
             /\ PlayerPosition(lastOp'.arg) = PlayerPosition(selectedOut.id) ]_vars

\* C9: an accepted transfer carries the outgoing player's captain and
\* vice-captain flags onto the incoming player.
C9_CaptaincyCarried ==
    [][ (lastOp'.name = "transferIn")
          => \A i \in 1..Len(currentSquad) :
                currentSquad[i].id = selectedOut.id
                   => \E j \in 1..Len(gameweekData'[currentGameweekId].squad) :
                         LET q == gameweekData'[currentGameweekId].squad[j] IN
                         /\ q.id = lastOp'.arg
                         /\ q.is_captain = currentSquad[i].is_captain
                         /\ q.is_vice_captain = currentSquad[i].is_vice_captain ]_vars

\* C10: in every materialized gameweek the slot indices are a permutation of 1..15.
C10_SlotsPermutation ==
    \A g \in 1..LastGw :
        Materialized(g)
            => /\ Len(gameweekData[g].squad) = 15
               /\ { gameweekData[g].squad[i].squad_position : i \in 1..15 } = 1..15

\* a step of handleTransferIn that records a legal transfer: the outgoing
\* player is held in the viewed squad, the incoming one is not, and their
\* positions agree
LegalTransferStep ==
    /\ lastOp'.name = "transferIn"
    /\ gameweekData[currentGameweekId].present
    /\ selectedOut.id \in SquadIds(currentSquad)
    /\ lastOp'.arg \notin SquadIds(currentSquad)
    /\ PlayerPosition(lastOp'.arg) = PlayerPosition(selectedOut.id)

\* C11: transfer round-trip.  After a legal transfer, undoing the last
\* recorded transfer gives back the gameweek state the transfer started from:
\* the same squad (players, slots, captaincy flags), transfer list and bank.
C11_TransferRoundTrip ==
    [][ LegalTransferStep
          => LET post == gameweekData'[currentGameweekId]
                 undone == UndoState(post.squad, post.transfers, Len(post.transfers))
             IN  /\ undone.squad = currentSquad
                 /\ undone.transfers = transfers
                 /\ post.bank = gameweekData[currentGameweekId].bank ]_vars

\* C12: undoTransfer at a valid index k of the viewed gameweek's transfer list
\* removes exactly record k and puts that record's out player back into the
\* squad in the slot it was transferred out of, also when a later transfer of
\* the gameweek replaced record k's in player.
C12_UndoAtIndex ==
    [][ (lastOp'.name = "undoTransfer" /\ gameweekData[currentGameweekId].present)
          => LET record == transfers[lastOp'.arg]
                 post == gameweekData'[currentGameweekId]
             IN  /\ post.transfers = RemoveAt(transfers, lastOp'.arg)
                 /\ \E j \in 1..Len(post.squad) :
                       /\ post.squad[j].id = record.out.id
                       /\ post.squad[j].squad_position = record.out.squad_position ]_vars

\* the step commits an edit to the viewed gameweek through updateGameweekState
CommittedStep ==
    /\ lastOp'.name \in {"transferIn", "undoTransfer", "resetGw", "playerClick"}
    /\ lastOp'.res \in {"ok", "swap"}
    /\ (lastOp'.name = "playerClick" => lastOp'.res = "swap")

\* C13: frame of propagation.  An edit committed to gameweek g (a transfer in,
\* an undo, a gameweek reset or a swap) leaves every field of every gameweek
\* before g, and of the anchor when it is not g, unchanged; of the gameweeks
\* after g it leaves the transfer list, freeTransfers and whether they are
\* materialized unchanged, so that besides g only the squad and bank of
\* materialized later gameweeks can change.
C13_PropagationFrame ==
    [][ CommittedStep
          => \A h \in 1..LastGw :
                /\ h < lastOp'.gw => gameweekData'[h] = gameweekData[h]
                /\ (h = initialGameweekId /\ h # lastOp'.gw)
                      => gameweekData'[h] = gameweekData[h]
                /\ h > lastOp'.gw
                      => /\ gameweekData'[h].present = gameweekData[h].present
                         /\ gameweekData'[h].transfers = gameweekData[h].transfers
                         /\ gameweekData'[h].freeTransfers = gameweekData[h].freeTransfers ]_vars

\* an edit committed to a gameweek while a later gameweek holds transfers of
\* its own
C13_Witness ==
    /\ Committed({"transferIn", "undoTransfer", "resetGw", "playerClick"})
    /\ \E h \in 1..LastGw :
          /\ h > lastOp.gw
          /\ Materialized(h)
          /\ Len(gameweekData[h].transfers) > 0

Captains(squad) == { i \in 1..Len(squad) : squad[i].is_captain }

ViceCaptains(squad) == { i \in 1..Len(squad) : squad[i].is_vice_captain }

\* C14: captaincy invariant.  Every materialized gameweek's squad has exactly
\* one captain and exactly one vice-captain, both in slots 1..11, and they are
\* different players.
C14_CaptaincyInvariant ==
    \A g \in 1..LastGw :
        Materialized(g)
            => LET squad == gameweekData[g].squad IN
               /\ Cardinality(Captains(squad)) = 1
               /\ Cardinality(ViceCaptains(squad)) = 1
               /\ \A i \in Captains(squad) \cup ViceCaptains(squad) :
                     squad[i].squad_position <= 11
               /\ Captains(squad) \cap ViceCaptains(squad) = {}

\* the player with this id is in slot 1..11 of the viewed gameweek's squad
ViewedStarter(id) ==
    \E i \in 1..Len(currentSquad) :
        currentSquad[i].id = id /\ currentSquad[i].squad_position <= 11

\* C15: assigning the captain to starter X of the viewed gameweek makes X the
\* only captain of that gameweek's stored squad and not its vice-captain;
\* assigning the vice-captain makes X the only vice-captain and not captain.
C15_AssignCaptain ==
    [][ (lastOp'.name \in {"makeCaptain", "makeViceCaptain"}
            /\ ViewedStarter(lastOp'.arg))
          => LET squad == gameweekData'[currentGameweekId].squad
                 X == { i \in 1..Len(squad) : squad[i].id = lastOp'.arg }
             IN  IF lastOp'.name = "makeCaptain"
                 THEN Captains(squad) = X /\ X \cap ViceCaptains(squad) = {}
                 ELSE ViceCaptains(squad) = X /\ X \cap Captains(squad) = {} ]_vars

\* the step is a captain or vice-captain attempt on a player of the viewed
\* squad who is on the bench (slot 12..15)
BenchCaptainAttempt ==
    /\ lastOp'.name \in {"makeCaptain", "makeViceCaptain"}
    /\ lastOp'.arg \in SquadIds(currentSquad)
    /\ ~ViewedStarter(lastOp'.arg)

EntryOf(squad, id) == squad[CHOOSE i \in 1..Len(squad) : squad[i].id = id]

\* the step is a second click of handlePlayerClick on a player other than the
\* selected one, and the selection is the selected player's current entry
SecondClickStep ==
    /\ lastOp'.name = "playerClick"
    /\ selectedForSwap # NoPlayer
    /\ selectedForSwap.id # lastOp'.arg
    /\ gameweekData[currentGameweekId].present
    /\ selectedForSwap.id \in SquadIds(currentSquad)
    /\ EntryOf(currentSquad, selectedForSwap.id) = selectedForSwap

\* the slot the clicked player of a second click holds
ClickedSlot == EntryOf(currentSquad, lastOp'.arg).squad_position

\* the viewed squad with the slot indices of the selected and the clicked
\* player exchanged and every other entry as it is
ExchangedSquad ==
    [i \in 1..Len(currentSquad) |->
        IF currentSquad[i].id = selectedForSwap.id
        THEN [currentSquad[i] EXCEPT !.squad_position = ClickedSlot]
        ELSE IF currentSquad[i].id = lastOp'.arg
        THEN [currentSquad[i] EXCEPT
                 !.squad_position = selectedForSwap.squad_position]
        ELSE currentSquad[i]]

\* the step leaves the viewed squad as it was except that the selected and
\* the clicked player have exchanged their slot indices
SlotsExchanged == gameweekData'[currentGameweekId].squad = ExchangedSquad

\* the second click pairs the goalkeeper of slot 1 with the goalkeeper of slot 12
GoalkeeperPairStep ==
    /\ SecondClickStep
    /\ PlayerPosition(selectedForSwap.id) = "GKP"
    /\ PlayerPosition(lastOp'.arg) = "GKP"
    /\ {selectedForSwap.squad_position, ClickedSlot} = {1, 12}

\* C17 as stated: an attempt to swap the starting goalkeeper (slot 1) with the
\* bench goalkeeper (slot 12) is rejected with an error and the squad is left
\* unchanged.
C17_GoalkeeperSwapRejected ==
    [][ GoalkeeperPairStep
          => /\ swapError'.msg # ""
             /\ gameweekData' = gameweekData ]_vars

\* C17 amended: a swap of the starting goalkeeper (slot 1) with the bench
\* goalkeeper (slot 12) is never rejected with a goalkeeper error.  It is
\* judged as any starter/bench swap: when the starters form a legal formation
\* (the exchange of two goalkeepers does not change it) the two goalkeepers
\* exchange their slots, no other player moves and no error is reported;
\* otherwise the invalid-formation error is reported and the plan is
\* unchanged.  The selection is cleared either way.
C17_GoalkeeperSwapAccepted ==
    [][ GoalkeeperPairStep
          => /\ IF getFormation(currentSquad) \in VALID_FORMATIONS
                THEN swapError' = NoSwapError /\ SlotsExchanged
                ELSE /\ swapError'.msg = "invalid formation"
                     /\ gameweekData' = gameweekData
             /\ selectedForSwap' = NoPlayer ]_vars

\* the two goalkeepers have just been swapped: the goalkeeper of the bench
\* was clicked into slot 1 or out of it
C17_Witness ==
    /\ lastOp.name = "playerClick"
    /\ lastOp.res = "swap"
    /\ PlayerPosition(lastOp.arg) = "GKP"
    /\ \E i \in 1..Len(currentSquad) :
          /\ PlayerPosition(currentSquad[i].id) = "GKP"
          /\ currentSquad[i].id # lastOp.arg
          /\ {currentSquad[i].squad_position,
              EntryOf(currentSquad, lastOp.arg).squad_position} = {1, 12}

\* the step is a second click of handlePlayerClick that pairs one starter with
\* one bench player: the slot the selection recorded and the slot of the
\* clicked player are on different sides of 11
StarterBenchStep ==
    /\ lastOp'.name = "playerClick"
    /\ selectedForSwap # NoPlayer
    /\ selectedForSwap.id # lastOp'.arg
    /\ lastOp'.arg \in SquadIds(currentSquad)
    /\ (selectedForSwap.squad_position <= 11) # (ClickedSlot <= 11)

\* how many of the selected and the clicked player are goalkeepers
GoalkeepersInPair ==
    Cardinality({ id \in {selectedForSwap.id, lastOp'.arg} :
                    PlayerPosition(id) = "GKP" })

\* C18: a swap between one starter and one bench player where exactly one of
\* the two is a goalkeeper is always rejected with the goalkeeper error, the
\* plan is left unmodified, and the swap selection is cleared.
C18_GoalkeeperMismatchRejected ==
    [][ (StarterBenchStep /\ GoalkeepersInPair = 1)
          => /\ swapError'.msg = "Goalkeepers can only swap with other goalkeepers"
             /\ gameweekData' = gameweekData
             /\ selectedForSwap' = NoPlayer ]_vars

\* a second click has just paired a goalkeeper with an outfield player across
\* the starter/bench line and was rejected
C18_Witness ==
    /\ lastOp.name = "playerClick"
    /\ lastOp.res = "rejected"
    /\ swapError.msg = "Goalkeepers can only swap with other goalkeepers"
    /\ selectedForSwap = NoPlayer

\* C19: a swap between one starter and one bench player, neither a
\* goalkeeper, is applied if and only if the starters that would result form
\* one of the eight legal formations; otherwise it is rejected with an
\* invalid-formation error naming both players and the plan is unchanged.
C19_FormationGate ==
    [][ (StarterBenchStep /\ GoalkeepersInPair = 0)
          => IF getFormation(ExchangedSquad) \in VALID_FORMATIONS
             THEN swapError' = NoSwapError /\ SlotsExchanged
             ELSE /\ swapError'.msg = "invalid formation"
                  /\ {swapError'.benchPlayer, swapError'.starter}
                        = {selectedForSwap.id, lastOp'.arg}
                  /\ gameweekData' = gameweekData ]_vars

\* a second click has just paired two outfield players across the
\* starter/bench line and was rejected for the formation, the squad still
\* holding both players named by the error
C19_Witness ==
    /\ lastOp.name = "playerClick"
    /\ lastOp.res = "rejected"
    /\ swapError.msg = "invalid formation"
    /\ lastOp.arg \in {swapError.benchPlayer, swapError.starter}
    /\ {swapError.benchPlayer, swapError.starter} \subseteq SquadIds(currentSquad)
    /\ getFormation(currentSquad) \in VALID_FORMATIONS

\* the second click pairs two distinct players of the same tier: both in
\* slots 1..11, or both on the bench and neither a goalkeeper
SameTierStep ==
    /\ SecondClickStep
    /\ lastOp'.arg \in SquadIds(currentSquad)
    /\ \/ (selectedForSwap.squad_position <= 11 /\ ClickedSlot <= 11)
       \/ /\ selectedForSwap.squad_position > 11
          /\ ClickedSlot > 11
          /\ GoalkeepersInPair = 0

\* C20: a swap of two distinct players in the same tier (both starters, or
\* both bench with no goalkeeper involved) is always accepted and applied:
\* after the second click the two players' slot indices are exchanged in the
\* viewed gameweek's squad and no other player's slot changes.
C20_SameTierSwapApplied ==
    [][ SameTierStep => (swapError' = NoSwapError /\ SlotsExchanged) ]_vars

\* C21: from a legally imported squad, the starters of every materialized
\* gameweek form one of the eight legal formations after any sequence of
\* accepted swaps, transfers and propagations (in particular after every swap
\* the lineup logic accepts from a legal formation).
C21_FormationLegal ==
    \A g \in 1..LastGw :
        Materialized(g) => getFormation(gameweekData[g].squad) \in VALID_FORMATIONS

\* the goalkeepers of a squad that hold a slot in the given set
GoalkeepersIn(squad, slots) ==
    { i \in 1..Len(squad) :
        /\ PlayerPosition(squad[i].id) = "GKP"
        /\ squad[i].squad_position \in slots }

\* C22: in every materialized gameweek, after any sequence of accepted swaps
\* and transfers, exactly one goalkeeper holds a starter slot (1..11) and
\* bench slot 12 is held by the squad's other goalkeeper.
C22_GoalkeeperPlacement ==
    \A g \in 1..LastGw :
        Materialized(g) =>
            LET squad == gameweekData[g].squad
            IN  /\ Cardinality(GoalkeepersIn(squad, 1..11)) = 1
                /\ Cardinality(GoalkeepersIn(squad, {12})) = 1
                /\ Cardinality({ i \in 1..Len(squad) :
                                    squad[i].squad_position = 12 }) = 1

\* the step is a click of handlePlayerClick on a player other than the one
\* selected for swap: the second click of a swap attempt, which is evaluated
EvaluatedSecondClick ==
    /\ lastOp'.name = "playerClick"
    /\ selectedForSwap # NoPlayer
    /\ selectedForSwap.id # lastOp'.arg

\* C23: every evaluated second click of a swap attempt, applied or rejected
\* (both bench, both starters, starter and bench with or without a
\* goalkeeper), leaves no player selected for swap, and every second click
\* that does not apply a swap leaves the plan unmodified.
C23_SecondClickResetsSelection ==
    [][ EvaluatedSecondClick
          => /\ selectedForSwap' = NoPlayer
             /\ (lastOp'.res # "swap" => gameweekData' = gameweekData) ]_vars

\* the step is a click of handlePlayerClick on the player selected for swap
ClickOnSelectedStep ==
    /\ lastOp'.name = "playerClick"
    /\ selectedForSwap # NoPlayer
    /\ selectedForSwap.id = lastOp'.arg

\* C24: a click on the player already selected for swap cancels the
\* selection: no player is selected for swap afterwards, no error is
\* reported, and the plan is unchanged.
C24_ClickOnSelectedCancels ==
    [][ ClickOnSelectedStep
          => /\ selectedForSwap' = NoPlayer
             /\ swapError' = NoSwapError
             /\ error' = error
             /\ gameweekData' = gameweekData ]_vars

\* the selected player has just been clicked again and the selection is gone
C24_Witness ==
    /\ lastOp.name = "playerClick"
    /\ lastOp.res = "cancel"
    /\ lastOp.arg \in SquadIds(currentSquad)
    /\ selectedForSwap = NoPlayer
    /\ swapError = NoSwapError

\* the last handler was a transfer action that took effect (a player
\* selected out, a transfer completed or undone, a gameweek reset) or a
\* navigation that changed the viewed gameweek
PlanEditOrNavigation ==
    \/ lastOp.name \in {"transferClick", "transferIn", "undoTransfer"}
    \/ lastOp.name = "resetGw" /\ lastOp.res = "ok"
    \/ lastOp.name = "next" /\ lastOp.res \in {"existing", "new"}
    \/ lastOp.name = "prev" /\ lastOp.res = "ok"

\* C25: the swap selection never survives a plan edit or a navigation:
\* immediately after any transfer action (selecting a player out, completing
\* a transfer in, undoing a transfer, resetting a gameweek) and after any
\* gameweek navigation no player is selected for swap.
C25_SelectionClearedByEdit ==
    PlanEditOrNavigation => selectedForSwap = NoPlayer

\* the step leaves the plan and the viewed gameweek as they were
PlanAndViewUnchanged ==
    /\ gameweekData' = gameweekData
    /\ currentGameweekId' = currentGameweekId

\* C26: navigation never leaves the planning window.  The viewed gameweek,
\* once there is one, is a gameweek of the timeline not before the anchor;
\* 'previous' at the anchor and 'next' at the last gameweek of the timeline
\* change nothing; and a navigation that is refused changes neither the plan
\* nor the viewed gameweek.
C26_NavigationInWindow ==
    [][ /\ (currentGameweekId' # 0
              => /\ currentGameweekId' >= initialGameweekId'
                 /\ findIndex(currentGameweekId)' # 0)
        /\ ((lastOp'.name = "prev" /\ currentGameweekId = initialGameweekId)
              => PlanAndViewUnchanged)
        /\ ((/\ lastOp'.name = "next"
             /\ Len(gameweeks) > 0
             /\ currentGameweekId = gameweeks[Len(gameweeks)])
              => PlanAndViewUnchanged)
        /\ ((/\ lastOp'.name \in {"next", "prev"}
             /\ lastOp'.res \in {"refused", "none", "threw"})
              => PlanAndViewUnchanged) ]_vars

\* 'next' has just been asked for at the last gameweek of the timeline, with
\* that gameweek materialized, and nothing moved
C26_Witness ==
    /\ lastOp.name = "next"
    /\ lastOp.res = "none"
    /\ Len(gameweeks) > 0
    /\ currentGameweekId = gameweeks[Len(gameweeks)]
    /\ currentGameweekId > initialGameweekId
    /\ Materialized(currentGameweekId)

\* after the step, materialized gameweek n has the squad and the bank derived
\* from the entry of its predecessor
RederivedAfterStep(n) ==
    LET p == getPrevGameweekId(n) IN
    (p # 0 /\ gameweekData'[p].present)
        => /\ gameweekData'[n].squad =
                 applyTransfersToSquad(gameweekData'[p].squad,
                                       gameweekData'[p].transfers)
           /\ gameweekData'[n].bank = calculateBankAfterTransfers(gameweekData'[p])

\* C27: resetting a non-anchor gameweek g that has recorded transfers
\* empties g's transfer list and sets g's squad and bank to the squad and
\* bank derived from the previous gameweek, and every materialized later
\* gameweek is then re-derived (squad and bank) from the reset state; on the
\* anchor gameweek the reset changes nothing.
C27_ResetGameweek ==
    [][ (lastOp'.name = "resetGw")
          => IF currentGameweekId = initialGameweekId
             THEN gameweekData' = gameweekData
             ELSE LET g == currentGameweekId
                      prevGwState == gameweekData[getPrevGameweekId(g)]
                  IN  /\ gameweekData'[g].transfers = << >>
                      /\ gameweekData'[g].squad =
                            applyTransfersToSquad(prevGwState.squad,
                                                  prevGwState.transfers)
                      /\ gameweekData'[g].bank =
                            calculateBankAfterTransfers(prevGwState)
                      /\ \A n \in 1..LastGw :
                            (n > g /\ gameweekData'[n].present)
                                => RederivedAfterStep(n) ]_vars

\* the gameweeks that have an entry in the plan after the step
MaterializedAfterStep == { g \in 1..LastGw : gameweekData'[g].present }

\* C28: Reset All, from any state with a loaded team, collapses the plan to
\* exactly one entry, the anchor, whose squad and bank are those of the
\* import, with an empty transfer list and one free transfer; the viewed
\* gameweek becomes the anchor and the transfer-out and swap selections are
\* cleared.
C28_ResetAll ==
    [][ (lastOp'.name = "resetAll" /\ teamData # NoTeam)
          => /\ MaterializedAfterStep = {initialGameweekId}
             /\ \A g \in MaterializedAfterStep :
                    /\ gameweekData'[g].squad = teamData.squad
                    /\ gameweekData'[g].bank = teamData.bank
                    /\ gameweekData'[g].transfers = << >>
                    /\ gameweekData'[g].freeTransfers = 1
             /\ currentGameweekId' = initialGameweekId
             /\ selectedOut' = NoPlayer
             /\ selectedForSwap' = NoPlayer ]_vars

\* the step belongs to a roster load that can fail: it issues the request,
\* whose answer may be a failure, or it handles the failure
FailingLoadStep ==
    /\ lastOp'.name = "loadTeam"
    /\ lastOp'.res \in {"started", "failed"}

\* C29: a roster load that fails leaves the plan that existed before it was
\* started untouched (every gameweek entry with its squad, transfers and
\* bank), applies nothing of the import, and surfaces the failure as an error
\* message.  Whether a load fails is known only when its answer arrives, so
\* the plan has to be intact across both steps of the load: issuing the
\* request and handling the failure.
C29_FailedLoadLeavesPlan ==
    [][ FailingLoadStep
          => /\ gameweekData' = gameweekData
             /\ teamData' = teamData
             /\ currentGameweekId' = currentGameweekId
             /\ (lastOp'.res = "failed" => error' # "") ]_vars

\* the plan that holds the anchor entry seeded from the import and nothing else
AnchorOnlyPlan ==
    [g \in GwKeys |->
        IF g = initialGameweekId THEN SeedEntry(teamData) ELSE NoEntry]

\* a roster load has just completed successfully, or the gameweek list has
\* just arrived after one did
LoadAndTimelineComplete ==
    /\ teamData # NoTeam
    /\ initialGameweekId # 0
    /\ \/ lastOp.name = "loadTeam" /\ lastOp.res = "ok"
       \/ lastOp.name = "fetchGameweeks" /\ lastOp.res = "ok"

\* C30: a successful roster load replaces the plan as a whole: once it has
\* completed, the plan is exactly the anchor entry seeded from the fetched
\* squad and bank with no transfers, however the load interleaves with the
\* fetch of the gameweek list (a load that completes before the list has
\* arrived included) and with user actions made while it is pending.
C30_LoadReplacesPlan ==
    LoadAndTimelineComplete => gameweekData = AnchorOnlyPlan

\* C31: the transfer points cost shown for the viewed gameweek is 4 times the
\* number of transfers recorded in that gameweek beyond the freeTransfers of
\* that gameweek's state, and 0 when there are none beyond them.
C31_TransferCostDerived ==
    Materialized(currentGameweekId) =>
        LET extra == Len(gameweekData[currentGameweekId].transfers)
                        - gameweekData[currentGameweekId].freeTransfers
        IN  transferCost = 4 * (IF extra > 0 THEN extra ELSE 0)

\* how many players of a squad play for a club
CountTeam(squad, team) ==
    Cardinality({ i \in 1..Len(squad) : PlayerTeam(squad[i].id) = team })

\* C32: a transfer that would leave the squad with more than 3 players of
\* one club is not accepted: starting from an import with at most 3 players
\* per club, every materialized gameweek's squad has at most 3 players of any
\* one club.
C32_MaxThreePerTeam ==
    \A g \in 1..LastGw :
        Materialized(g) =>
            \A id \in CatalogIds :
                CountTeam(gameweekData[g].squad, PlayerTeam(id)) <= 3

\* the transfers of a list that find their `out` player when they are
\* re-applied in order to a starting squad; the others are orphaned
RECURSIVE LiveTransfers(_, _)
LiveTransfers(squad, transfersList) ==
    IF transfersList = << >> THEN << >>
    ELSE LET t == Head(transfersList) IN
         IF t.out.id \in SquadIds(squad)
         THEN << t >> \o LiveTransfers(ApplyOneTransfer(squad, t), Tail(transfersList))
         ELSE LiveTransfers(squad, Tail(transfersList))

\* C33: after an edit has propagated and re-based a later gameweek, every
\* transfer still recorded against that gameweek either finds its `out`
\* player in the freshly derived starting squad or is left out of
\* re-application: the squad and the bank derived from that gameweek for the
\* following one are those of its live transfers only.
C33_OrphanedTransfersExcluded ==
    Committed({"transferIn", "undoTransfer", "resetGw", "playerClick"})
        => \A h \in 1..LastGw :
              (Materialized(h) /\ h > lastOp.gw)
                  => LET entry == gameweekData[h]
                         live == LiveTransfers(entry.squad, entry.transfers)
                     IN  /\ applyTransfersToSquad(entry.squad, entry.transfers)
                              = applyTransfersToSquad(entry.squad, live)
                         /\ calculateBankAfterTransfers(entry)
                              = BankFold(entry.bank, live)

\* the gameweeks the propagation loop runs for when it is started at
\* gameweek g on the present plan
VisitedFrom(g) == PropagateLoop(gameweekData, g, << >>).visited

\* C34: propagation terminates.  On a timeline of distinct ids the loop
\* started at a gameweek runs for each later materialized gameweek at most
\* once, in timeline order (the i-th run is for the i-th gameweek after the
\* start), and stops at the first gameweek without a plan entry or at the
\* end of the timeline.
C34_PropagationTerminates ==
    \A k \in 1..Len(gameweeks) :
        \A visited \in {VisitedFrom(gameweeks[k])} :
            LET last == IF visited = << >> THEN gameweeks[k]
                        ELSE visited[Len(visited)]
            IN  /\ Len(visited) <= Len(gameweeks) - k
                /\ \A i \in 1..Len(visited) :
                      /\ visited[i] = gameweeks[k + i]
                      /\ Materialized(visited[i])
                /\ \/ getNextGameweekId(last) = 0
                   \/ ~Materialized(getNextGameweekId(last))

\* an edit has just been committed at the anchor with two later gameweeks
\* materialized: the loop ran for both and stopped at the end of the timeline
C34_Witness ==
    /\ Committed({"transferIn", "undoTransfer", "playerClick"})
    /\ lastOp.gw = initialGameweekId
    /\ Len(VisitedFrom(lastOp.gw)) = 2
    /\ \A i \in 1..2 :
          gameweekData[VisitedFrom(lastOp.gw)[i]].squad =
              applyTransfersToSquad(gameweekData[lastOp.gw].squad,
                                    gameweekData[lastOp.gw].transfers)

\* C35: (under SpecPersist) a savePlan invocation issues at most one insert and
\* its completion issues none (no retry); no step of savePlan changes the plan,
\* the viewed gameweek or the selections; the remembered saved plan changes
\* only when the insert succeeded, to the planData that insert carried, and a
\* failed insert ends with the failure reported and savedPlan as it was
C35_SavePlanFrame ==
    [][ lastOp'.name = "savePlan" =>
          /\ UNCHANGED << gameweekData, currentGameweekId, selectedOut,
                          selectedForSwap >>
          /\ lastOp'.res \in {"no_id", "started", "ok", "failed"}
          /\ lastOp'.res = "no_id" => UNCHANGED << pendingSaves, savedPlan >>
          /\ lastOp'.res = "started" =>
                /\ Len(pendingSaves') = Len(pendingSaves) + 1
                /\ savedPlan' = savedPlan
          /\ lastOp'.res = "ok" =>
                /\ Len(pendingSaves') = Len(pendingSaves) - 1
                /\ \E i \in 1..Len(pendingSaves) : savedPlan' = pendingSaves[i]
          /\ lastOp'.res = "failed" =>
                /\ Len(pendingSaves') = Len(pendingSaves) - 1
                /\ savedPlan' = savedPlan ]_vars

\* a save failed after an earlier one succeeded and the plan moved on: the
\* remembered plan is still the earlier one
C35_Witness ==
    /\ lastOp.name = "savePlan"
    /\ lastOp.res = "failed"
    /\ savedPlan.present
    /\ "full_plan" \in DOMAIN savedPlan
    /\ savedPlan.full_plan # gameweekData
    /\ pendingSaves = <<>>

\* C36: in every materialized gameweek the stored squad reflects the
\* gameweek's own recorded transfers: for every record whose incoming player
\* is not the outgoing player of a later record of the same gameweek, the
\* `in` player is in the stored squad and the `out` player is not (unless a
\* later record of the gameweek bought the `out` player back).
C36_SquadReflectsOwnTransfers ==
    \A g \in 1..LastGw :
        Materialized(g) =>
            LET ts == gameweekData[g].transfers
                ids == SquadIds(gameweekData[g].squad)
                later(i) == (i + 1)..Len(ts)
            IN  \A i \in 1..Len(ts) :
                    (\A j \in later(i) : ts[j].out.id # ts[i].in)
                        => /\ ts[i].in \in ids
                           /\ \/ ts[i].out.id \notin ids
                              \/ \E j \in later(i) : ts[j].in = ts[i].out.id

MaterializedSet == { g \in 1..LastGw : Materialized(g) }

\* C37: (under SpecPersist) whenever the plan is non-empty, the materialized
\* gameweeks are a contiguous run of the timeline that starts at the anchor,
\* the viewed gameweek has a plan entry, and neither forward navigation nor a
\* reset has just read a missing entry.
C37_ContiguousFromAnchor ==
    MaterializedSet # {} =>
        /\ \E last \in 1..LastGw :
              MaterializedSet = { g \in 1..LastGw : initialGameweekId <= g /\ g <= last }
        /\ MaterializedSet \subseteq { gameweeks[k] : k \in 1..Len(gameweeks) }
        /\ Materialized(currentGameweekId)
        /\ ~(lastOp.name \in {"next", "resetGw"} /\ lastOp.res = "threw")

\* a step that completes a load successfully right after another load, in
\* flight together with it, completed successfully, and leaves none in flight
SecondOfTwoLoadsCompletes ==
    /\ lastOp.name = "loadTeam"
    /\ lastOp.res = "ok"
    /\ Len(pendingLoads) = 1
    /\ lastOp'.name = "loadTeam"
    /\ lastOp'.res = "ok"
    /\ pendingLoads' = <<>>

\* C38: (under SpecLoads) when two team loads were in flight at once and both
\* have succeeded, the stored team data and the plan's anchor entry are those
\* of the load that was requested last, in whichever order the two responses
\* arrived.
C38_LastRequestedLoadWins ==
    [][ SecondOfTwoLoadsCompletes =>
          /\ teamData' = UserTeam(requestedId)
          /\ initialGameweekId # 0 =>
                gameweekData'[initialGameweekId] = SeedEntry(UserTeam(requestedId))
      ]_vars
====

